---- MODULE Spec2Model ----
(***************************************************************************)
(* Percentile service of the stock/bond percentile backend                 *)
(* (backend/services/percentile_service.py) and the API handlers that call *)
(* it (backend/api/stocks.py, bonds.py, analysis.py).                      *)
(*                                                                         *)
(* A pandas Series is a record [index, values] of two sequences of equal   *)
(* length.  A percentile is the exact rational 100*k/m, kept as the pair   *)
(* <<100*k, m>>.  One action is one call made on the idle service: op     *)
(* names the callee, arg its input, ret what it returned or raised.        *)
(***************************************************************************)
EXTENDS Integers, Sequences, FiniteSets, TLC

VARIABLES window, min_data_points, op, arg, ret

vars == <<window, min_data_points, op, arg, ret>>

(* ------------------------------ bounds --------------------------------- *)

MaxWindow == 3

MaxMinPoints == 2

MaxLen == 5

MaxVal == 2

MaxPoints == 36

MaxBatch == 3

MaxTrendLen == 8

MaxHistory == 12

MaxCorrLen == 3

MaxStatLen == 4

Precision == 5

(* periods=252 of the simulated bond frame. *)
BOND_PERIODS == 252

(* The defaults of utils/config.py. *)
PERCENTILE_WINDOW == 252

MIN_DATA_POINTS == 60

(* ----------------------------- rationals ------------------------------- *)

Rat(n, d) == <<n, d>>

RatEq(a, b) == a[1] * b[2] = b[1] * a[2]

RatLess(a, b) == a[1] * b[2] < b[1] * a[2]

RatLeq(a, b) == a[1] * b[2] <= b[1] * a[2]

Abs(a) == IF a < 0 THEN -a ELSE a

RECURSIVE GCD(_, _)
GCD(a, b) == IF b = 0 THEN a ELSE GCD(b, a % b)

(* n/d in lowest terms (d > 0). *)
RatNorm(n, d) ==
    LET g == GCD(Abs(n), d)
    IN IF g = 0 THEN Rat(0, 1) ELSE Rat(n \div g, d \div g)

RatAdd(a, b) == RatNorm(a[1] * b[2] + b[1] * a[2], a[2] * b[2])

RatSub(a, b) == RatNorm(a[1] * b[2] - b[1] * a[2], a[2] * b[2])

RatMul(a, b) == RatNorm(a[1] * b[1], a[2] * b[2])

RatDivInt(a, k) == RatNorm(a[1], a[2] * k)

RatAbs(a) == Rat(Abs(a[1]), a[2])

RECURSIVE RatSum(_)
RatSum(xs) == IF xs = <<>> THEN Rat(0, 1) ELSE RatAdd(Head(xs), RatSum(Tail(xs)))

(* ------------------------------ pandas --------------------------------- *)

Max(a, b) == IF a >= b THEN a ELSE b

Min(a, b) == IF a <= b THEN a ELSE b

(* series.iloc[-1] *)
Last(s) == s.values[Len(s.values)]

(* Series.tail(k): the last k rows, all of them when there are fewer. *)
tail(s, k) ==
    LET n == Len(s.values)
        m == Min(n, k)
    IN [index  |-> SubSeq(s.index, n - m + 1, n),
        values |-> SubSeq(s.values, n - m + 1, n)]

(* series.iloc[a:b] with 0 <= a <= b <= len: rows a .. b-1 (0-based). *)
iloc_slice(s, a, b) ==
    [index  |-> SubSeq(s.index, a + 1, b),
     values |-> SubSeq(s.values, a + 1, b)]

(* (data < value).mean() * 100 for a non-empty data: the share of rows     *)
(* strictly below value, times 100.                                        *)
less_mean_100(data, value) ==
    Rat(100 * Cardinality({i \in 1..Len(data.values) : data.values[i] < value}),
        Len(data.values))

(* ------------------------- PercentileService --------------------------- *)

(* Mutant: ties counted as below (<= for <). *)
_calculate_percentile_ties(series, value) ==
    LET recent_data == IF Len(series.values) >= window
                       THEN tail(series, window)
                       ELSE series
    IN Rat(100 * Cardinality({i \in 1..Len(recent_data.values) :
                                 recent_data.values[i] <= value}),
           Len(recent_data.values))

(* Mutant: the window is forgotten, the whole series ranked. *)
_calculate_percentile_whole(series, value) == less_mean_100(series, value)

(* The except branch (return 50.0) needs an exception, and none arises on  *)
(* a non-empty numeric series.                                             *)
_calculate_percentile(series, value) ==
    LET recent_data == IF Len(series.values) >= window
                       THEN tail(series, window)
                       ELSE series
    IN less_mean_100(recent_data, value)

(* Mutant: each entry dated with the row before its own. *)
_calculate_historical_percentiles_prev_date(series) ==
    LET n == Len(series.values)
        I(j) == window + j - 1
    IN [index  |-> [j \in 1..Max(0, n - window) |-> series.index[I(j)]],
        values |-> [j \in 1..Max(0, n - window) |->
                       less_mean_100(iloc_slice(series, I(j) - window, I(j)),
                                     series.values[I(j) + 1])]]

(* Mutant: the window slides one row late and holds the current row. *)
_calculate_historical_percentiles_incl(series) ==
    LET n == Len(series.values)
        I(j) == window + j - 1
    IN [index  |-> [j \in 1..Max(0, n - window) |-> series.index[I(j) + 1]],
        values |-> [j \in 1..Max(0, n - window) |->
                       less_mean_100(iloc_slice(series, I(j) - window + 1, I(j) + 1),
                                     series.values[I(j) + 1])]]

(* The loop body cannot raise on a numeric series, so the except branch    *)
(* (an empty Series) is not taken.                                         *)
_calculate_historical_percentiles(series) ==
    LET n == Len(series.values)
        \* range(self.window, len(series)): i = window + j - 1 for j = 1..n-window
        I(j) == window + j - 1
    IN [index  |-> [j \in 1..Max(0, n - window) |-> series.index[I(j) + 1]],
        values |-> [j \in 1..Max(0, n - window) |->
                       less_mean_100(iloc_slice(series, I(j) - window, I(j)),
                                     series.values[I(j) + 1])]]

(* round(x, 2) and round(x, 4) of a float: the nearest multiple of 1/100   *)
(* (1/10000), a tie going to the even one; the result is kept as the       *)
(* number of hundredths (ten-thousandths).                                  *)
round_to(x, scale) ==
    LET q == (x[1] * scale) \div x[2]
        r == (x[1] * scale) - q * x[2]
    IN IF 2 * r < x[2] THEN q
       ELSE IF 2 * r > x[2] THEN q + 1
       ELSE IF q % 2 = 0 THEN q ELSE q + 1

round2(x) == round_to(x, 100)

round4(x) == round_to(x, 10000)

(* Series.to_dict(into): the one parameter is the mapping class to build.  *)
(* pandas' standardize_mapping takes the class of a non-class argument and *)
(* raises TypeError("unsupported type") unless it is a Mapping, before any *)
(* row is read; a Series has no orient="records" form.                     *)
MappingClasses == {"dict", "OrderedDict"}

to_dict(s, into) ==
    IF into \in MappingClasses
    THEN [raised |-> "none",
          value  |-> [j \in 1..Len(s.values) |->
                         [date |-> s.index[j], percentile |-> s.values[j]]]]
    ELSE [raised |-> "TypeError", value |-> <<>>]

(* The k-th smallest value of a non-empty sequence (k = 1..Len). *)
kth_smallest(S, k) ==
    CHOOSE v \in {S[i] : i \in 1..Len(S)} :
        /\ Cardinality({i \in 1..Len(S) : S[i] < v}) < k
        /\ Cardinality({i \in 1..Len(S) : S[i] <= v}) >= k

RECURSIVE sum_seq(_)
sum_seq(S) == IF S = <<>> THEN 0 ELSE Head(S) + sum_seq(Tail(S))

(* Series.quantile(num/4): linear interpolation between the two order      *)
(* statistics around position (n-1)*num/4.                                 *)
quantile4(S, num) ==
    LET n == Len(S)
        lo == ((n - 1) * num) \div 4
        fr == ((n - 1) * num) % 4
        a == kth_smallest(S, lo + 1)
        b == IF lo + 2 <= n THEN kth_smallest(S, lo + 2) ELSE a
    IN Rat(4 * a + fr * (b - a), 4)

(* A float that may be NaN: round(nan, 2) is nan. *)
NaN == [nan |-> TRUE, hundredths |-> 0]

Number(h) == [nan |-> FALSE, hundredths |-> h]

(* Series.std(): the sample deviation (ddof = 1); NaN for one value.  The  *)
(* rounded root is the h with (h - 1/2)^2 <= 10^4 * var < (h + 1/2)^2.     *)
std_round2(S) ==
    LET n == Len(S)
        sum == sum_seq(S)
        \* var = num / den with den = n*n*(n-1)
        num == sum_seq([i \in 1..n |-> (n * S[i] - sum) * (n * S[i] - sum)])
        den == n * n * (n - 1)
    IN IF n < 2 THEN NaN
       ELSE Number(CHOOSE h \in 0..(100 * (kth_smallest(S, n) - kth_smallest(S, 1)) + 1) :
               /\ (2 * h - 1) * (2 * h - 1) * den <= 40000 * num \/ h = 0
               /\ 40000 * num < (2 * h + 1) * (2 * h + 1) * den)

_calculate_statistics(series) ==
    LET S == series.values
        n == Len(S)
    IN [mean   |-> round2(Rat(sum_seq(S), n)),
        median |-> round2(quantile4(S, 2)),
        std    |-> std_round2(S),
        min    |-> round2(Rat(kth_smallest(S, 1), 1)),
        max    |-> round2(Rat(kth_smallest(S, n), 1)),
        q25    |-> round2(quantile4(S, 1)),
        q75    |-> round2(quantile4(S, 3))]

(* What a data source hands back when it has nothing. *)
None == [none |-> TRUE]

(* The outcome of a service call: the exception it raised ("none" when it  *)
(* returned), the computations it ran before that, and the value returned. *)
Raised(e, done) == [raised |-> e, computed |-> done, value |-> None]

Returned(v, done) == [raised |-> "none", computed |-> done, value |-> v]

(* stock_data is None or len(stock_data) < self.min_data_points *)
insufficient(data) == data = None \/ Len(data.values) < min_data_points

(* get_stock_percentile and get_bond_percentile differ in the column read  *)
(* and in the name and rounding of the current value.                      *)
get_percentile(kind, symbol, period, data) ==
    IF insufficient(data)
    THEN Raised("ValueError", {})
    ELSE LET current == Last(data)
             percentile == _calculate_percentile(data, current)
             historical_percentiles == _calculate_historical_percentiles(data)
             stats == _calculate_statistics(data)
             done == {"percentile", "historical_percentiles", "statistics"}
             records == to_dict(tail(historical_percentiles, 30), "records")
         IN IF records.raised # "none"
            THEN Raised(records.raised, done)
            ELSE Returned([symbol |-> symbol,
                           current |-> IF kind = "stock"
                                       THEN round2(Rat(current, 1))
                                       ELSE round4(Rat(current, 1)),
                           percentile |-> round2(percentile),
                           period |-> period,
                           data_points |-> Len(data.values),
                           statistics |-> stats,
                           historical_percentiles |-> records.value],
                          done)

get_stock_percentile(symbol, period, stock_data) ==
    get_percentile("stock", symbol, period, stock_data)

get_bond_percentile(symbol, period, bond_data) ==
    get_percentile("bond", symbol, period, bond_data)

(* The sum of the percentiles of the entries of market_data under the      *)
(* keys in S.                                                              *)
RECURSIVE sum_percentiles(_, _)
sum_percentiles(market_data, S) ==
    IF S = {} THEN 0
    ELSE LET k == CHOOSE k \in S : TRUE
         IN market_data[k].percentile + sum_percentiles(market_data, S \ {k})

(* np.mean of the rounded percentiles against 80 and 20. *)
_generate_market_summary(market_data) ==
    LET keys == DOMAIN market_data
        total == sum_percentiles(market_data, keys)
    IN IF keys = {} THEN "no market data"
       ELSE IF total > 8000 * Cardinality(keys) THEN "high"
       ELSE IF total < 2000 * Cardinality(keys) THEN "low"
       ELSE "normal"

indices == {"^GSPC", "^IXIC", "^DJI", "000300.SS", "000001.SS"}

(* get_market_overview: source[index] is what _get_stock_data answers for  *)
(* the index; an index enters market_data when its frame is not None and   *)
(* not empty.                                                              *)
get_market_overview(source) ==
    LET market_data ==
            [index \in {i \in indices : source[i] # None /\ Len(source[i].values) > 0} |->
                LET data == source[index]
                    current_price == Last(data)
                    percentile == _calculate_percentile(data, current_price)
                IN [current_price |-> round2(Rat(current_price, 1)),
                    percentile |-> round2(percentile)]]
    IN [market_data |-> market_data,
        summary |-> _generate_market_summary(market_data)]

(* ----------------------------- API handlers ---------------------------- *)

(* A handler's answer: the JSON body with status 200, or the HTTPException *)
(* it let out of the function.                                             *)
HTTPException(status_code, detail) == [status |-> status_code, detail |-> detail]

Success(data) == [status |-> 200, data |-> data]

(* f"{days}d" *)
PeriodDays(days) == [count |-> days, unit |-> "d"]

(* GET /stock/{symbol}/percentile and /bond/{symbol}/percentile.  The 400  *)
(* of the symbol test is raised inside the try, where no clause re-raises  *)
(* HTTPException: `except Exception` turns it into the 500.                *)
api_get_percentile(kind, symbol, period, data) ==
    IF Len(symbol) < 3
    THEN HTTPException(500, "percentile failed")
    ELSE LET result == get_percentile(kind, symbol, period, data)
         IN IF result.raised = "none" THEN Success(result.value)
            ELSE IF result.raised = "ValueError"
            THEN HTTPException(400, "ValueError")
            ELSE HTTPException(500, "percentile failed")

(* s.strip() on the raw items a request can carry. *)
strip(s) ==
    CASE s = " "          -> ""
      [] s = " 600519.SH" -> "600519.SH"
      [] OTHER            -> s

(* for symbol in symbol_list: try ... results.append / except ...          *)
(* errors.append; source[symbol] is what the data source answers.          *)
RECURSIVE batch_loop(_, _, _, _, _)
batch_loop(kind, symbol_list, period, source, acc) ==
    IF symbol_list = <<>> THEN acc
    ELSE LET symbol == Head(symbol_list)
             result == get_percentile(kind, symbol, period, source[symbol])
         IN batch_loop(kind, Tail(symbol_list), period, source,
                IF result.raised = "none"
                THEN [acc EXCEPT !.results = Append(@, result.value)]
                ELSE [acc EXCEPT !.errors =
                         Append(@, [symbol |-> symbol, error |-> result.raised])])

(* GET /stocks/batch (limit 20) and /bonds/batch (limit 10); raw_items is  *)
(* symbols.split(",").                                                     *)
get_batch_percentiles(kind, limit, raw_items, period, source) ==
    LET stripped == [i \in 1..Len(raw_items) |-> strip(raw_items[i])]
        symbol_list == SelectSeq(stripped, LAMBDA s : s # "")
    IN IF symbol_list = <<>> THEN HTTPException(400, "no valid symbol")
       ELSE IF Len(symbol_list) > limit THEN HTTPException(400, "too many symbols")
       ELSE LET acc == batch_loop(kind, symbol_list, period, source,
                                  [results |-> <<>>, errors |-> <<>>])
            IN Success([results |-> acc.results,
                        errors |-> acc.errors,
                        total |-> Len(symbol_list),
                        success_count |-> Len(acc.results),
                        error_count |-> Len(acc.errors)])

get_batch_stock_percentiles(raw_items, period, source) ==
    get_batch_percentiles("stock", 20, raw_items, period, source)

get_batch_bond_percentiles(raw_items, period, source) ==
    get_batch_percentiles("bond", 10, raw_items, period, source)

Percentiles(historical_data) ==
    [i \in 1..Len(historical_data) |-> historical_data[i].percentile]

LastN(xs, k) == IF k = 0 THEN xs ELSE SubSeq(xs, Max(1, Len(xs) - k + 1), Len(xs))

(* The trend of the last 7 historical entries, as get_stock_trend and      *)
(* get_bond_trend compute it, before the response rounds the strength.     *)
recent_trend(historical_data) ==
    LET recent_percentiles == Percentiles(LastN(historical_data, 7))
        first == recent_percentiles[1]
        last == recent_percentiles[Len(recent_percentiles)]
    IN [recent_percentiles |-> recent_percentiles,
        trend |-> IF RatLess(first, last) THEN "up" ELSE "down",
        trend_strength |-> RatAbs(RatSub(last, first))]

trend_response_over7(result) ==
    LET historical_data == result.historical_percentiles
    IN IF Len(historical_data) <= 7
       THEN HTTPException(400, "insufficient data for trend")
       ELSE LET t == recent_trend(historical_data)
            IN Success([result |-> result,
                        trend |-> t.trend,
                        trend_strength |-> round2(t.trend_strength),
                        recent_percentiles |-> t.recent_percentiles,
                        current_percentile |-> result.percentile])

(* get_stock_trend / get_bond_trend from the service's result on.  The     *)
(* recommendation text is a label of (percentile, trend).                  *)
trend_response(result) ==
    LET historical_data == result.historical_percentiles
    IN IF Len(historical_data) < 7
       THEN HTTPException(400, "insufficient data for trend")
       ELSE LET t == recent_trend(historical_data)
            IN Success([result |-> result,
                        trend |-> t.trend,
                        trend_strength |-> round2(t.trend_strength),
                        recent_percentiles |-> t.recent_percentiles,
                        current_percentile |-> result.percentile])

(* GET /stock/{symbol}/trend and /bond/{symbol}/trend.  Whatever the       *)
(* service raises, ValueError included, meets `except Exception`: 500.     *)
get_trend(kind, symbol, days, data) ==
    LET period == IF days <= 365 THEN PeriodDays(days) ELSE [count |-> 1, unit |-> "y"]
        result == get_percentile(kind, symbol, period, data)
    IN IF result.raised # "none" THEN HTTPException(500, "trend failed")
       ELSE trend_response(result.value)

get_stock_trend(symbol, days, data) == get_trend("stock", symbol, days, data)

get_bond_trend(symbol, days, data) == get_trend("bond", symbol, days, data)

(* ------------------------------ analysis ------------------------------- *)

(* Floats.  A float is the rational it stands for; every operation rounds  *)
(* its exact result to the nearest number m * 2^e with m of Precision bits *)
(* (a tie goes to the even m), as IEEE arithmetic does with 53 bits.  The  *)
(* exponent is not bounded: the lists are percentiles in [0, 100], whose   *)
(* sums and deviations stay far from overflow and underflow.               *)
RECURSIVE Pow2(_)
Pow2(k) == IF k = 0 THEN 1 ELSE 2 * Pow2(k - 1)

(* a/d as (a'/d') * 2^e with 2^(Precision-1) <= a'/d' < 2^Precision. *)
RECURSIVE fl_scale(_, _, _)
fl_scale(a, d, e) ==
    IF a >= Pow2(Precision) * d THEN fl_scale(a, 2 * d, e + 1)
    ELSE IF a < Pow2(Precision - 1) * d THEN fl_scale(2 * a, d, e - 1)
    ELSE <<a, d, e>>

fl(q) ==
    IF q[1] = 0 THEN Rat(0, 1)
    ELSE LET s == fl_scale(Abs(q[1]), q[2], 0)
             m == round_to(Rat(s[1], s[2]), 1)
             v == IF s[3] >= 0 THEN RatNorm(m * Pow2(s[3]), 1)
                  ELSE RatNorm(m, Pow2(-(s[3])))
         IN IF q[1] < 0 THEN Rat(-(v[1]), v[2]) ELSE v

fadd(a, b) == fl(RatAdd(a, b))

fsub(a, b) == fl(RatSub(a, b))

fmul(a, b) == fl(RatMul(a, b))

(* a / b, b # 0 *)
fdiv(a, b) ==
    fl(IF b[1] < 0 THEN RatNorm(-(a[1] * b[2]), a[2] * (-(b[1])))
       ELSE RatNorm(a[1] * b[2], a[2] * b[1]))

(* The list with every entry computed once. *)
Evaluated(xs) == SubSeq(xs, 1, Len(xs))

(* The sum of the first k entries: from 0, left to right, rounding after   *)
(* every addition.                                                         *)
RECURSIVE fsum_to(_, _)
fsum_to(xs, k) == IF k = 0 THEN Rat(0, 1) ELSE fadd(fsum_to(xs, k - 1), xs[k])

fsum(xs) == LET terms == Evaluated(xs) IN fsum_to(terms, Len(terms))

(* a/d as (a'/d') * 4^e with 4^(Precision-1) <= a'/d' < 4^Precision. *)
RECURSIVE sqrt_scale(_, _, _)
sqrt_scale(a, d, e) ==
    IF a >= Pow2(2 * Precision) * d THEN sqrt_scale(a, 4 * d, e + 1)
    ELSE IF a < Pow2(2 * Precision - 2) * d THEN sqrt_scale(4 * a, d, e - 1)
    ELSE <<a, d, e>>

(* q ** 0.5 for q > 0: the float nearest to the root. *)
fsqrt(q) ==
    LET s == sqrt_scale(q[1], q[2], 0)
        m == CHOOSE m \in Pow2(Precision - 1)..Pow2(Precision) :
                 /\ (2 * m - 1) * (2 * m - 1) * s[2] <= 4 * s[1]
                 /\ 4 * s[1] < (2 * m + 1) * (2 * m + 1) * s[2]
    IN IF s[3] >= 0 THEN RatNorm(m * Pow2(s[3]), 1) ELSE RatNorm(m, Pow2(-(s[3])))

(* The coefficient the function returns, kept as its sign and its square;  *)
(* 0.0 is [sign |-> 0, sq |-> 0/1].                                        *)
Coefficient(sign, sq) == [sign |-> sign, sq |-> sq]

Sign(a) == IF a[1] > 0 THEN 1 ELSE IF a[1] < 0 THEN -1 ELSE 0

(* The deviations of a list from its mean: x[i] - mean_x for every i. *)
deviations(x) ==
    LET mean_x == fdiv(fsum(x), Rat(Len(x), 1))
    IN Evaluated([i \in 1..Len(x) |-> fsub(x[i], mean_x)])

(* sum(a[i] * b[i] for i in range(n)) *)
sum_of_products(a, b) == fsum([i \in 1..Len(a) |-> fmul(a[i], b[i])])

(* The numerator and the two sums of squared deviations. *)
deviation_sums(dev_x, dev_y) ==
    [numerator |-> sum_of_products(dev_x, dev_y),
     denominator_x |-> sum_of_products(dev_x, dev_x),
     denominator_y |-> sum_of_products(dev_y, dev_y)]

(* max(-1.0, min(1.0, correlation)) *)
clamp(correlation) ==
    IF RatLess(Rat(1, 1), correlation) THEN Rat(1, 1)
    ELSE IF RatLess(correlation, Rat(-1, 1)) THEN Rat(-1, 1)
    ELSE correlation

SignAndSquare(c) == Coefficient(Sign(c), RatMul(c, c))

correlation_ratio_by_x(sums) ==
    IF sums.denominator_x[1] = 0 \/ sums.denominator_y[1] = 0
    THEN Coefficient(0, Rat(0, 1))
    ELSE SignAndSquare(clamp(fdiv(sums.numerator,
             fsqrt(fmul(sums.denominator_x, sums.denominator_x)))))

correlation_ratio_unclamped(sums) ==
    IF sums.denominator_x[1] = 0 \/ sums.denominator_y[1] = 0
    THEN Coefficient(0, Rat(0, 1))
    ELSE SignAndSquare(fdiv(sums.numerator,
             fsqrt(fmul(sums.denominator_x, sums.denominator_y))))

(* The zero test, the division and the clamp that end the function. *)
correlation_ratio(sums) ==
    IF sums.denominator_x[1] = 0 \/ sums.denominator_y[1] = 0
    THEN Coefficient(0, Rat(0, 1))
    ELSE SignAndSquare(clamp(fdiv(sums.numerator,
             fsqrt(fmul(sums.denominator_x, sums.denominator_y)))))

_calculate_correlation(x, y) ==
    IF Len(x) # Len(y) THEN Coefficient(0, Rat(0, 1))
    ELSE IF Len(x) < 2 THEN Coefficient(0, Rat(0, 1))
    ELSE correlation_ratio(deviation_sums(deviations(x), deviations(y)))

(* Comparisons of a coefficient with a/b (b > 0), through its sign and its *)
(* square.                                                                 *)
CoefGreater(c, a, b) ==
    IF a >= 0
    THEN c.sign = 1 /\ RatLess(Rat(a * a, b * b), c.sq)
    ELSE c.sign >= 0 \/ RatLess(c.sq, Rat(a * a, b * b))

(* abs(correlation) >= a/b, a >= 0 *)
AbsAtLeast(c, a, b) == RatLeq(Rat(a * a, b * b), c.sq)

_get_correlation_strength_strict(correlation) ==
    IF ~AbsAtLeast(correlation, 8, 10) \/ RatEq(correlation.sq, Rat(64, 100))
    THEN (IF AbsAtLeast(correlation, 5, 10) THEN "moderate"
          ELSE IF AbsAtLeast(correlation, 3, 10) THEN "weak"
          ELSE "negligible")
    ELSE "strong"

_get_correlation_strength(correlation) ==
    IF AbsAtLeast(correlation, 8, 10) THEN "strong"
    ELSE IF AbsAtLeast(correlation, 5, 10) THEN "moderate"
    ELSE IF AbsAtLeast(correlation, 3, 10) THEN "weak"
    ELSE "negligible"

_interpret_correlation(correlation) ==
    IF CoefGreater(correlation, 8, 10) THEN "strong positive"
    ELSE IF CoefGreater(correlation, 5, 10) THEN "moderate positive"
    ELSE IF CoefGreater(correlation, 3, 10) THEN "weak positive"
    ELSE IF CoefGreater(correlation, -3, 10) THEN "negligible"
    ELSE IF CoefGreater(correlation, -5, 10) THEN "weak negative"
    ELSE IF CoefGreater(correlation, -8, 10) THEN "moderate negative"
    ELSE "strong negative"

(* results.sort(key=percentile, reverse=True): descending, equal keys      *)
(* keeping their order.                                                    *)
RECURSIVE sort_desc(_)
sort_desc(rs) ==
    IF rs = <<>> THEN <<>>
    ELSE LET x == rs[Len(rs)]
             rest == sort_desc(SubSeq(rs, 1, Len(rs) - 1))
             before == SelectSeq(rest, LAMBDA r : r.percentile >= x.percentile)
             after == SelectSeq(rest, LAMBDA r : r.percentile < x.percentile)
         IN before \o <<x>> \o after

(* The loop of compare_assets: the HTTPException of an unsupported asset   *)
(* type is raised inside the per-symbol try and lands in errors.           *)
RECURSIVE compare_loop(_, _, _, _)
compare_loop(symbols, asset_type, source, acc) ==
    IF symbols = <<>> THEN acc
    ELSE LET symbol == Head(symbols)
             result == IF asset_type \in {"stock", "bond"}
                       THEN get_percentile(asset_type, symbol,
                                           [count |-> 1, unit |-> "y"], source[symbol])
                       ELSE Raised("HTTPException", {})
         IN compare_loop(Tail(symbols), asset_type, source,
                IF result.raised = "none"
                THEN [acc EXCEPT !.results =
                         Append(@, [symbol |-> symbol,
                                    type |-> asset_type,
                                    percentile |-> result.value.percentile,
                                    value |-> result.value.current,
                                    statistics |-> result.value.statistics])]
                ELSE [acc EXCEPT !.errors =
                         Append(@, [symbol |-> symbol, error |-> result.raised])])

(* POST /analysis/compare.  sum(percentiles) / len(percentiles) divides by *)
(* zero when no symbol succeeded; `except Exception` answers 500.          *)
compare_assets(symbols, asset_type, source) ==
    IF Len(symbols) < 2 THEN HTTPException(400, "at least 2 assets")
    ELSE IF Len(symbols) > 10 THEN HTTPException(400, "at most 10 assets")
    ELSE LET acc == compare_loop(symbols, asset_type, source,
                                 [results |-> <<>>, errors |-> <<>>])
             results == sort_desc(acc.results)
             percentiles == [i \in 1..Len(results) |-> results[i].percentile]
         IN IF Len(percentiles) = 0
            THEN HTTPException(500, "compare failed")
            ELSE LET max_percentile == results[1].percentile
                     min_percentile == results[Len(results)].percentile
                 IN Success([results |-> results,
                             errors |-> acc.errors,
                             average_percentile |->
                                 round_to(Rat(sum_seq(percentiles), Len(percentiles)), 1),
                             max_percentile |-> max_percentile,
                             min_percentile |-> min_percentile,
                             range |-> max_percentile - min_percentile])

(* The trend indicators of analyze_trend, computed over the whole list of  *)
(* percentiles it was handed, before the response rounds them.             *)
trend_metrics_steps(percentiles) ==
    LET n == Len(percentiles)
        first == percentiles[1]
        last == percentiles[n]
        ma_7 == IF n >= 7
                THEN RatDivInt(RatSum(LastN(percentiles, 7)), 7)
                ELSE RatDivInt(RatSum(percentiles), n)
    IN [ma_7 |-> ma_7,
        ma_14 |-> IF n >= 14 THEN RatDivInt(RatSum(LastN(percentiles, 14)), 14) ELSE ma_7,
        trend_strength |-> RatAbs(RatSub(last, first)),
        trend_direction |-> IF RatLess(first, last) THEN "up"
                            ELSE IF RatLess(last, first) THEN "down"
                            ELSE "flat",
        volatility |-> RatDivInt(RatSum([i \in 1..(n - 1) |->
                           RatAbs(RatSub(percentiles[i + 1], percentiles[i]))]),
                           n)]

trend_metrics(percentiles) ==
    LET n == Len(percentiles)
        first == percentiles[1]
        last == percentiles[n]
        ma_7 == IF n >= 7
                THEN RatDivInt(RatSum(LastN(percentiles, 7)), 7)
                ELSE RatDivInt(RatSum(percentiles), n)
    IN [ma_7 |-> ma_7,
        ma_14 |-> IF n >= 14 THEN RatDivInt(RatSum(LastN(percentiles, 14)), 14) ELSE ma_7,
        trend_strength |-> RatAbs(RatSub(last, first)),
        trend_direction |-> IF RatLess(first, last) THEN "up"
                            ELSE IF RatLess(last, first) THEN "down"
                            ELSE "flat",
        volatility |-> RatDivInt(RatSum([i \in 1..(n - 1) |->
                           RatAbs(RatSub(percentiles[i + 1], percentiles[i]))]),
                           n - 1)]

(* analyze_trend from the service's result on: the length check, the       *)
(* indicators and the response.  The recommendation text is a label of     *)
(* (percentile, direction, strength, asset_type).                          *)
trend_analysis(symbol, asset_type, result) ==
    LET historical_data == result.historical_percentiles
    IN IF Len(historical_data) < 7
       THEN HTTPException(400, "insufficient data for trend")
       ELSE LET m == trend_metrics(Percentiles(historical_data))
            IN Success([symbol |-> symbol,
                        asset_type |-> asset_type,
                        current_percentile |-> result.percentile,
                        trend_direction |-> m.trend_direction,
                        trend_strength |-> round2(m.trend_strength),
                        volatility |-> round2(m.volatility),
                        ma_7 |-> round2(m.ma_7),
                        ma_14 |-> round2(m.ma_14),
                        historical_percentiles |-> historical_data])

(* GET /analysis/trend. *)
analyze_trend(symbol, asset_type, days, data) ==
    IF asset_type \notin {"stock", "bond"}
    THEN HTTPException(400, "unsupported asset type")
    ELSE LET result == get_percentile(asset_type, symbol, PeriodDays(days), data)
         IN IF result.raised # "none" THEN HTTPException(500, "trend analysis failed")
            ELSE trend_analysis(symbol, asset_type, result.value)

(* The two percentile lists analyze_correlation hands to                   *)
(* _calculate_correlation: the last min_length entries of each history.    *)
aligned_percentiles_head(historical1, historical2) ==
    LET min_length == Min(Len(historical1), Len(historical2))
    IN <<Percentiles(SubSeq(historical1, 1, min_length)),
         Percentiles(SubSeq(historical2, 1, min_length))>>

aligned_percentiles(historical1, historical2) ==
    LET min_length == Min(Len(historical1), Len(historical2))
    IN <<Percentiles(LastN(historical1, min_length)),
         Percentiles(LastN(historical2, min_length))>>

correlation_analysis_either(symbol1, symbol2, asset_type1, asset_type2, data1, data2) ==
    LET historical1 == data1.historical_percentiles
        historical2 == data2.historical_percentiles
    IN IF Len(historical1) < 10 /\ Len(historical2) < 10
       THEN HTTPException(400, "insufficient data for correlation")
       ELSE LET aligned == aligned_percentiles(historical1, historical2)
                correlation == _calculate_correlation(aligned[1], aligned[2])
            IN Success([asset1 |-> [symbol |-> symbol1,
                                    type |-> asset_type1,
                                    current_percentile |-> data1.percentile],
                        asset2 |-> [symbol |-> symbol2,
                                    type |-> asset_type2,
                                    current_percentile |-> data2.percentile],
                        correlation |-> correlation,
                        correlation_strength |-> _get_correlation_strength(correlation),
                        interpretation |-> _interpret_correlation(correlation)])

(* analyze_correlation from the two results of the service on.  The        *)
(* response's correlation is the coefficient before round(.., 4); the      *)
(* recommendation text is a label of the coefficient.                      *)
correlation_analysis(symbol1, symbol2, asset_type1, asset_type2, data1, data2) ==
    LET historical1 == data1.historical_percentiles
        historical2 == data2.historical_percentiles
    IN IF Len(historical1) < 10 \/ Len(historical2) < 10
       THEN HTTPException(400, "insufficient data for correlation")
       ELSE LET aligned == aligned_percentiles(historical1, historical2)
                correlation == _calculate_correlation(aligned[1], aligned[2])
            IN Success([asset1 |-> [symbol |-> symbol1,
                                    type |-> asset_type1,
                                    current_percentile |-> data1.percentile],
                        asset2 |-> [symbol |-> symbol2,
                                    type |-> asset_type2,
                                    current_percentile |-> data2.percentile],
                        correlation |-> correlation,
                        correlation_strength |-> _get_correlation_strength(correlation),
                        interpretation |-> _interpret_correlation(correlation)])

(* GET /analysis/correlation.  answer1 and answer2 are what the data       *)
(* sources answer for the two assets; the second is fetched only when the  *)
(* first call returned.                                                    *)
analyze_correlation(symbol1, symbol2, asset_type1, asset_type2, days, answer1, answer2) ==
    IF asset_type1 \notin {"stock", "bond"}
    THEN HTTPException(400, "unsupported asset type 1")
    ELSE LET data1 == get_percentile(asset_type1, symbol1, PeriodDays(days), answer1)
         IN IF data1.raised # "none" THEN HTTPException(500, "correlation failed")
            ELSE IF asset_type2 \notin {"stock", "bond"}
            THEN HTTPException(400, "unsupported asset type 2")
            ELSE LET data2 == get_percentile(asset_type2, symbol2, PeriodDays(days), answer2)
                 IN IF data2.raised # "none" THEN HTTPException(500, "correlation failed")
                    ELSE correlation_analysis(symbol1, symbol2, asset_type1, asset_type2,
                                              data1.value, data2.value)

(* ------------------------------ inputs --------------------------------- *)

(* The index of a fetched series: consecutive days from a start day. *)
StartDays == {1, 101}

MkSeries(start, vals) ==
    [index |-> [i \in 1..Len(vals) |-> start + i - 1], values |-> vals]

ValueSeqs == UNION {[1..n -> 0..MaxVal] : n \in 1..MaxLen}

(* The worked example: S = 1..10, ranked with W = 5. *)
ExampleSeries == MkSeries(1, <<1, 2, 3, 4, 5, 6, 7, 8, 9, 10>>)

(* The windows the service is configured with. *)
Windows == (1..MaxWindow) \cup {5}

(* settings.PERCENTILE_WINDOW and settings.MIN_DATA_POINTS as the service  *)
(* reads them at construction: small ones, and the defaults.               *)
Configurations ==
    (Windows \X (1..MaxMinPoints)) \cup {<<PERCENTILE_WINDOW, MIN_DATA_POINTS>>}

SeriesInputs ==
    {MkSeries(st, v) : st \in StartDays, v \in ValueSeqs} \cup {ExampleSeries}

(* What the stock data source answers for a symbol and a period: nothing,  *)
(* or a frame of closes.  The long frames repeat a short pattern.          *)
Patterns == {<<1>>, <<0, 1>>, <<2, 1, 0>>}

Cycle(pat, n) == [i \in 1..n |-> pat[((i - 1) % Len(pat)) + 1]]

StockFrames == {MkSeries(1, Cycle(pat, n)) : pat \in Patterns, n \in 1..MaxPoints}

StockAnswers == {None} \cup StockFrames

(* _get_bond_data: None when the fetch raises, else 252 simulated yields. *)
BondFrames == {MkSeries(1, Cycle(pat, BOND_PERIODS)) : pat \in Patterns}

BondAnswers == {None} \cup BondFrames

Answers(kind) == IF kind = "stock" THEN StockAnswers ELSE BondAnswers

(* The answers the handlers over several symbols are tried with: nothing,  *)
(* a one-row frame and a frame longer than any configured minimum.         *)
FewStockAnswers ==
    {None, MkSeries(1, Cycle(<<0, 1>>, 1)), MkSeries(1, Cycle(<<0, 1>>, MaxMinPoints + 1))}

FewBondAnswers == {None, MkSeries(1, Cycle(<<0, 1>>, BOND_PERIODS))}

FewAnswers(kind) == IF kind = "stock" THEN FewStockAnswers ELSE FewBondAnswers

(* The second asset of a correlation: the few answers and one long frame. *)
SecondAnswers(kind) ==
    FewAnswers(kind) \cup
        (IF kind = "stock" THEN {MkSeries(1, Cycle(<<2, 1, 0>>, MaxPoints))} ELSE {})

Symbols == {"000001.SZ", "600519.SH", "AAPL"}

RawItems == {"000001.SZ", " 600519.SH", "AAPL", " "}

AssetTypes == {"stock", "bond", "fund"}

Kinds == {"stock", "bond"}

Days == {7, 30, 90}

SeqsUpTo(S, n) == UNION {[1..k -> S] : k \in 0..n}

Repeat(x, k) == [i \in 1..k |-> x]

(* Requests of up to MaxBatch items, and the lists at and over the limit. *)
BatchRequests(limit) ==
    SeqsUpTo(RawItems, MaxBatch) \cup {Repeat("AAPL", limit), Repeat("AAPL", limit + 1)}

CompareRequests ==
    SeqsUpTo(Symbols, MaxBatch) \cup {Repeat("AAPL", 10), Repeat("AAPL", 11)}

(* Lists of historical percentiles as the analysis handlers read them:    *)
(* the 7 or more entries the length check lets through.                    *)
TrendValues == {Rat(0, 1), Rat(100, 3), Rat(50, 1)}

(* The worked example of the trend indicators. *)
ExampleSlice ==
    <<Rat(40, 1), Rat(45, 1), Rat(50, 1), Rat(55, 1), Rat(60, 1), Rat(62, 1), Rat(70, 1)>>

PercentileLists ==
    [1..7 -> TrendValues]
        \cup UNION {[1..n -> {Rat(0, 1), Rat(100, 3)}] : n \in 8..MaxTrendLen}
        \cup {[i \in 1..n |-> Rat(Cycle(pat, n)[i] * 50, 1)] : pat \in Patterns, n \in {14, 15}}
        \cup {ExampleSlice}

(* historical_percentiles as the service lays them out: one record per    *)
(* trading day, oldest first.                                              *)
Historical(percentiles) ==
    [i \in 1..Len(percentiles) |-> [date |-> i, percentile |-> percentiles[i]]]

HistoricalLists ==
    {Historical(p) : p \in UNION {[1..n -> {Rat(0, 1), Rat(100, 3)}] : n \in 7..MaxTrendLen}}
        \cup {Historical(ExampleSlice)}

(* Histories too short for a trend or a correlation. *)
ShortHistoricalLists ==
    {Historical([i \in 1..n |-> Rat(Cycle(pat, n)[i] * 50, 1)]) : pat \in Patterns, n \in 0..6}

(* A result of the service, in the fields the handlers read: the rounded   *)
(* percentile and the historical records.                                  *)
ResultOf(historical_data) ==
    [percentile |-> IF historical_data = <<>> THEN 0
                    ELSE round2(historical_data[Len(historical_data)].percentile),
     historical_percentiles |-> historical_data]

TrendResults == {ResultOf(h) : h \in HistoricalLists \cup ShortHistoricalLists}

TrendOperations == {"get_stock_trend", "get_bond_trend", "analyze_trend"}

(* Histories around the 10 entries a correlation needs, and none at all. *)
CorrPatterns == Patterns \cup {<<0, 1, 1, 2>>, <<2, 0>>}

CorrHistories ==
    {Historical([i \in 1..n |-> Rat(Cycle(pat, n)[i], 1)]) :
        pat \in CorrPatterns, n \in {0} \cup (8..MaxHistory)}

CorrResults == {ResultOf(h) : h \in CorrHistories}

SecondCorrResults ==
    {ResultOf(Historical([i \in 1..n |-> Rat(Cycle(<<0, 1, 1, 2>>, n)[i], 1)])) :
        n \in {0} \cup (8..MaxHistory)}

(* Arguments of _calculate_correlation: lists of floats of any lengths. *)
CorrValues == {0, 1, 3}

(* Percentiles 100*k/W as floats, and lists repeating one of them. *)
PercentileFloats ==
    {fl(Rat(100 * p[1], p[2])) : p \in {q \in (0..5) \X Windows : q[1] <= q[2]}}

ConstantLists == {[i \in 1..n |-> v] : v \in PercentileFloats, n \in 2..MaxCorrLen}

CorrSeqs == UNION {[1..n -> {Rat(v, 1) : v \in CorrValues}] : n \in 0..MaxCorrLen}

(* The series _calculate_statistics is tried with. *)
StatSeries ==
    {MkSeries(1, v) : v \in UNION {[1..n -> 0..MaxVal] : n \in 1..MaxStatLen}}
        \cup {ExampleSeries}

(* Coefficients in steps of 1/100 over [-1, 1]. *)
CoefficientOf(k) == Coefficient(IF k > 0 THEN 1 ELSE IF k < 0 THEN -1 ELSE 0,
                                Rat(k * k, 10000))

Hundredths == -100..100

(* The list with every entry negated. *)
Negated(x) == [i \in 1..Len(x) |-> Rat(-(x[i][1]), x[i][2])]

(* The list with 1 added to every entry, and the list read backwards. *)
Shifted(x) == [i \in 1..Len(x) |-> RatAdd(x[i], Rat(1, 1))]

Reversed(x) == [i \in 1..Len(x) |-> x[Len(x) + 1 - i]]

(* The second arguments a first argument is tried with: itself, its        *)
(* negation, its shift, its reverse, a shorter list and a longer one.      *)
CorrPartners(x) ==
    {x, Negated(x), Shifted(x), Reversed(x),
     SubSeq(x, 1, Len(x) - 1), Append(x, Rat(0, 1))}

Ramp(n) == [i \in 1..n |-> Rat(i, 1)]

(* The pairs _calculate_correlation is tried with: a list and its          *)
(* partners, two constant lists of percentiles, and a constant list on     *)
(* either side of a rising one.                                            *)
CorrPairs ==
    UNION {{<<x, y>> : y \in CorrPartners(x)} : x \in CorrSeqs}
        \cup {p \in ConstantLists \X ConstantLists : Len(p[1]) = Len(p[2])}
        \cup {<<c, Ramp(Len(c))>> : c \in ConstantLists}
        \cup {<<Ramp(Len(c)), c>> : c \in ConstantLists}

(* ------------------------------ actions -------------------------------- *)

Init ==
    /\ \E c \in Configurations :
         /\ window = c[1]
         /\ min_data_points = c[2]
    /\ op = "idle"
    /\ arg = <<>>
    /\ ret = <<>>

CalculatePercentile ==
    /\ op = "idle"
    /\ \E s \in SeriesInputs :
           /\ op' = "_calculate_percentile"
           /\ arg' = s
           /\ ret' = _calculate_percentile(s, Last(s))
           /\ UNCHANGED <<window, min_data_points>>

CalculateHistoricalPercentiles ==
    /\ op = "idle"
    /\ \E s \in SeriesInputs :
           /\ op' = "_calculate_historical_percentiles"
           /\ arg' = s
           /\ ret' = _calculate_historical_percentiles(s)
           /\ UNCHANGED <<window, min_data_points>>

(* historical_percentiles.tail(30): the slice the result record is built   *)
(* from, the only history a caller of the service is handed.               *)
TailHistoricalPercentiles ==
    /\ op = "idle"
    /\ \E s \in StockFrames :
         /\ op' = "historical_percentiles.tail"
         /\ arg' = s
         /\ ret' = tail(_calculate_historical_percentiles(s), 30)
         /\ UNCHANGED <<window, min_data_points>>

(* service.get_stock_percentile / get_bond_percentile called on its own. *)
GetPercentile ==
    /\ op = "idle"
    /\ \E kind \in Kinds, symbol \in Symbols :
         \E data \in Answers(kind) :
           /\ op' = "get_percentile"
           /\ arg' = [kind |-> kind, symbol |-> symbol, data |-> data]
           /\ ret' = IF kind = "stock"
                     THEN get_stock_percentile(symbol, [count |-> 1, unit |-> "y"], data)
                     ELSE get_bond_percentile(symbol, [count |-> 1, unit |-> "y"], data)
           /\ UNCHANGED <<window, min_data_points>>

ApiGetPercentile ==
    /\ op = "idle"
    /\ \E kind \in Kinds, symbol \in Symbols \cup {"", "AB"} :
         \E data \in Answers(kind) :
           /\ op' = "api_get_percentile"
           /\ arg' = [kind |-> kind, symbol |-> symbol, data |-> data]
           /\ ret' = api_get_percentile(kind, symbol, [count |-> 1, unit |-> "y"], data)
           /\ UNCHANGED <<window, min_data_points>>

ApiGetBatchPercentiles ==
    /\ op = "idle"
    /\ \E kind \in Kinds :
         \E raw_items \in BatchRequests(IF kind = "stock" THEN 20 ELSE 10),
            source \in [Symbols -> FewAnswers(kind)] :
           /\ op' = "get_batch_percentiles"
           /\ arg' = [kind |-> kind, raw_items |-> raw_items, source |-> source]
           /\ ret' = IF kind = "stock"
                     THEN get_batch_stock_percentiles(raw_items, [count |-> 1, unit |-> "y"], source)
                     ELSE get_batch_bond_percentiles(raw_items, [count |-> 1, unit |-> "y"], source)
           /\ UNCHANGED <<window, min_data_points>>

ApiGetTrend ==
    /\ op = "idle"
    /\ \E kind \in Kinds, symbol \in Symbols, days \in Days :
         \E data \in Answers(kind) :
           /\ op' = "get_trend"
           /\ arg' = [kind |-> kind, symbol |-> symbol, days |-> days, data |-> data]
           /\ ret' = IF kind = "stock"
                     THEN get_stock_trend(symbol, days, data)
                     ELSE get_bond_trend(symbol, days, data)
           /\ UNCHANGED <<window, min_data_points>>

CompareAssets ==
    /\ op = "idle"
    /\ \E asset_type \in AssetTypes, symbols \in CompareRequests :
         \E source \in [Symbols -> FewAnswers(asset_type)] :
           /\ op' = "compare_assets"
           /\ arg' = [asset_type |-> asset_type, symbols |-> symbols, source |-> source]
           /\ ret' = compare_assets(symbols, asset_type, source)
           /\ UNCHANGED <<window, min_data_points>>

AnalyzeTrend ==
    /\ op = "idle"
    /\ \E asset_type \in AssetTypes, symbol \in Symbols, days \in Days :
         \E data \in Answers(asset_type) :
           /\ op' = "analyze_trend"
           /\ arg' = [asset_type |-> asset_type, symbol |-> symbol, days |-> days,
                      data |-> data]
           /\ ret' = analyze_trend(symbol, asset_type, days, data)
           /\ UNCHANGED <<window, min_data_points>>

AnalyzeCorrelation ==
    /\ op = "idle"
    /\ \E asset_type1 \in AssetTypes, asset_type2 \in AssetTypes, days \in {30, 90} :
         \E answer1 \in Answers(asset_type1), answer2 \in SecondAnswers(asset_type2) :
           /\ op' = "analyze_correlation"
           /\ arg' = [asset_type1 |-> asset_type1, asset_type2 |-> asset_type2,
                      days |-> days, data1 |-> answer1, data2 |-> answer2]
           /\ ret' = analyze_correlation("000001.SZ", "600519.SH", asset_type1,
                                         asset_type2, days, answer1, answer2)
           /\ UNCHANGED <<window, min_data_points>>

(* The indicator block of analyze_trend on the list it was handed. *)
TrendMetrics ==
    /\ op = "idle"
    /\ \E percentiles \in PercentileLists :
         /\ op' = "trend_metrics"
         /\ arg' = percentiles
         /\ ret' = trend_metrics(percentiles)
         /\ UNCHANGED <<window, min_data_points>>

(* The trend block of get_stock_trend / get_bond_trend on the history it   *)
(* was handed.                                                             *)
RecentTrend ==
    /\ op = "idle"
    /\ \E historical_data \in HistoricalLists :
         /\ op' = "recent_trend"
         /\ arg' = historical_data
         /\ ret' = recent_trend(historical_data)
         /\ UNCHANGED <<window, min_data_points>>

(* A trend handler from the point where the service has returned. *)
TrendOfResult ==
    /\ op = "idle"
    /\ \E operation \in TrendOperations, result \in TrendResults :
         /\ op' = "trend_of_result"
         /\ arg' = [operation |-> operation, result |-> result]
         /\ ret' = IF operation = "analyze_trend"
                   THEN trend_analysis("000001.SZ", "stock", result)
                   ELSE trend_response(result)
         /\ UNCHANGED <<window, min_data_points>>

(* analyze_correlation from the point where the service has returned both  *)
(* results.                                                                *)
CorrelationOfResults ==
    /\ op = "idle"
    /\ \E data1 \in CorrResults, data2 \in SecondCorrResults :
         /\ op' = "correlation_of_results"
         /\ arg' = [data1 |-> data1, data2 |-> data2]
         /\ ret' = correlation_analysis("000001.SZ", "600519.SH", "stock", "bond",
                                        data1, data2)
         /\ UNCHANGED <<window, min_data_points>>

(* The alignment step of analyze_correlation, past the length check. *)
AlignPercentiles ==
    /\ op = "idle"
    /\ \E historical1 \in CorrHistories, historical2 \in CorrHistories :
         /\ Len(historical1) >= 10
         /\ Len(historical2) >= 10
         /\ op' = "aligned_percentiles"
         /\ arg' = <<historical1, historical2>>
         /\ ret' = aligned_percentiles(historical1, historical2)
         /\ UNCHANGED <<window, min_data_points>>

CalculateCorrelation ==
    /\ op = "idle"
    /\ \E p \in CorrPairs :
         /\ op' = "_calculate_correlation"
         /\ arg' = p
         /\ ret' = _calculate_correlation(p[1], p[2])
         /\ UNCHANGED <<window, min_data_points>>

GetCorrelationStrength ==
    /\ op = "idle"
    /\ \E k \in Hundredths :
         /\ op' = "_get_correlation_strength"
         /\ arg' = [hundredths |-> k, correlation |-> CoefficientOf(k)]
         /\ ret' = _get_correlation_strength(CoefficientOf(k))
         /\ UNCHANGED <<window, min_data_points>>

InterpretCorrelation ==
    /\ op = "idle"
    /\ \E k \in Hundredths :
         /\ op' = "_interpret_correlation"
         /\ arg' = [hundredths |-> k, correlation |-> CoefficientOf(k)]
         /\ ret' = _interpret_correlation(CoefficientOf(k))
         /\ UNCHANGED <<window, min_data_points>>

CalculateStatistics ==
    /\ op = "idle"
    /\ \E s \in StatSeries :
         /\ op' = "_calculate_statistics"
         /\ arg' = s
         /\ ret' = _calculate_statistics(s)
         /\ UNCHANGED <<window, min_data_points>>

GetMarketOverview ==
    /\ op = "idle"
    /\ \E source \in [indices -> FewStockAnswers] :
         /\ op' = "get_market_overview"
         /\ arg' = source
         /\ ret' = get_market_overview(source)
         /\ UNCHANGED <<window, min_data_points>>

(* The call is over; the service keeps nothing of it but its settings. *)
Finish ==
    /\ op # "idle"
    /\ op' = "idle"
    /\ arg' = <<>>
    /\ ret' = <<>>
    /\ UNCHANGED <<window, min_data_points>>

Next ==
    \/ CalculatePercentile
    \/ CalculateHistoricalPercentiles
    \/ TailHistoricalPercentiles
    \/ GetPercentile
    \/ ApiGetPercentile
    \/ ApiGetBatchPercentiles
    \/ ApiGetTrend
    \/ CompareAssets
    \/ AnalyzeTrend
    \/ AnalyzeCorrelation
    \/ TrendMetrics
    \/ RecentTrend
    \/ TrendOfResult
    \/ CorrelationOfResults
    \/ AlignPercentiles
    \/ CalculateCorrelation
    \/ GetCorrelationStrength
    \/ InterpretCorrelation
    \/ CalculateStatistics
    \/ GetMarketOverview
    \/ Finish

Spec == Init /\ [][Next]_vars

(* ------------------------- percentile engine --------------------------- *)

(* The number of positions a..b of S whose value is strictly below v. *)
RECURSIVE Below(_, _, _, _)
Below(S, a, b, v) ==
    IF a > b THEN 0
    ELSE (IF S[a] < v THEN 1 ELSE 0) + Below(S, a + 1, b, v)

(* C1: for a non-empty series of length n, _calculate_percentile of its    *)
(* last value is exactly 100*k/min(n,W), k the number of the trailing      *)
(* min(n,W) elements strictly below the last value, and lies in [0,100].   *)
C1_PercentileIsShareBelow ==
    op = "_calculate_percentile" =>
        LET S == arg.values
            n == Len(S)
            m == Min(n, window)
            k == Below(S, n - m + 1, n, S[n])
        IN /\ ret = Rat(100 * k, m)
           /\ RatLeq(Rat(0, 1), ret)
           /\ RatLeq(ret, Rat(100, 1))

C1_Witness ==
    /\ op = "_calculate_percentile"
    /\ Len(arg.values) > window
    /\ window >= 2
    /\ arg.values[1] < Last(arg)
    /\ RatLess(Rat(0, 1), ret)

(* C2: _calculate_historical_percentiles returns max(0, n - W) entries,    *)
(* one per index i = W .. n-1 in increasing order, each dated with the     *)
(* timestamp of S[i].                                                      *)
C2_HistoricalLengthAndDates ==
    op = "_calculate_historical_percentiles" =>
        LET n == Len(arg.values)
            len == IF n - window > 0 THEN n - window ELSE 0
        IN /\ Len(ret.values) = len
           /\ Len(ret.index) = len
           /\ \A j \in 1..len : ret.index[j] = arg.index[window + j]

C2_Witness ==
    /\ op = "_calculate_historical_percentiles"
    /\ Len(arg.values) = window + 2
    /\ Len(ret.values) = 2
    /\ ret.index = <<arg.index[1] + window, arg.index[1] + window + 1>>

(* C3: the historical percentile at index i (W <= i <= n-1) is 100 times   *)
(* the number of elements of S[i-W .. i-1] strictly below S[i], over W;    *)
(* S[i] itself is outside the window, so a value above all W preceding     *)
(* ones gets 100 (S = 1..10, W = 5: five entries, the one for 6 is 100).   *)
C3_HistoricalEntryExcludesSelf ==
    op = "_calculate_historical_percentiles" =>
        /\ \A j \in 1..Len(ret.values) :
              LET p == window + j      \* the position of S[i], i = p - 1
              IN /\ ret.values[j] =
                      Rat(100 * Below(arg.values, p - window, p - 1, arg.values[p]),
                          window)
                 /\ (\A q \in (p - window)..(p - 1) : arg.values[q] < arg.values[p])
                        => RatEq(ret.values[j], Rat(100, 1))
        /\ (arg = ExampleSeries /\ window = 5) =>
              /\ Len(ret.values) = 5
              /\ arg.values[window + 1] = 6
              /\ RatEq(ret.values[1], Rat(100, 1))

C3_Witness ==
    /\ op = "_calculate_historical_percentiles"
    /\ arg = ExampleSeries
    /\ window = 5
    /\ ret.values[1] = Rat(500, 5)

(* C4 as claimed: for n > W the last historical entry equals               *)
(* _calculate_percentile of the last value.                                *)
C4_LastHistoricalEqualsLatest ==
    (op = "_calculate_historical_percentiles" /\ Len(arg.values) > window) =>
        RatEq(ret.values[Len(ret.values)], _calculate_percentile(arg, Last(arg)))

(* C4 amended: for n > W the last historical entry ranks the last value    *)
(* against the W values before it, the latest-value percentile against     *)
(* the trailing W values with itself among them; the two differ by the     *)
(* one element that left the window: the historical entry is the latest    *)
(* percentile plus 100/W when S[n-1-W] is below the last value, and equal  *)
(* to it otherwise.                                                        *)
C4_LastHistoricalVersusLatest ==
    (op = "_calculate_historical_percentiles" /\ Len(arg.values) > window) =>
        LET n == Len(arg.values)
            hist == ret.values[Len(ret.values)]
            latest == _calculate_percentile(arg, Last(arg))
            left == IF arg.values[n - window] < arg.values[n] THEN 100 ELSE 0
        IN /\ hist[2] = window
           /\ latest[2] = window
           /\ hist[1] = latest[1] + left

C4_Witness ==
    /\ op = "_calculate_historical_percentiles"
    /\ Len(arg.values) > window
    /\ arg.values[Len(arg.values) - window] < Last(arg)
    /\ RatLess(_calculate_percentile(arg, Last(arg)), ret.values[Len(ret.values)])

(* C5: the latest-value percentile is at most 100*(min(n,W)-1)/min(n,W);   *)
(* with a full window (n >= W) and a last element strictly above every     *)
(* other element of the trailing window it is 100*(W-1)/W, never 100.      *)
C5_LatestNeverReachesHundred ==
    op = "_calculate_percentile" =>
        LET S == arg.values
            n == Len(S)
            m == Min(n, window)
        IN /\ RatLeq(ret, Rat(100 * (m - 1), m))
           /\ ~RatEq(ret, Rat(100, 1))
           /\ (n >= window /\ \A q \in (n - window + 1)..(n - 1) : S[q] < S[n])
                 => RatEq(ret, Rat(100 * (window - 1), window))

C5_Witness ==
    /\ op = "_calculate_percentile"
    /\ window >= 2
    /\ Len(arg.values) >= window
    /\ \A q \in (Len(arg.values) - window + 1)..(Len(arg.values) - 1) :
          arg.values[q] < Last(arg)
    /\ ret = Rat(100 * (window - 1), window)

(* ---------------------- service and API handlers ----------------------- *)

(* The source gave nothing, or fewer than M rows. *)
TooShort(data) == data = None \/ Len(data.values) < min_data_points

(* The length of the full historical percentile sequence of a frame. *)
FullHistory(data) ==
    IF data = None \/ Len(data.values) <= window THEN 0 ELSE Len(data.values) - window

(* C6: get_stock_percentile and get_bond_percentile raise ValueError when  *)
(* the source gives nothing or fewer than M rows, having computed no       *)
(* percentile, history or statistics and returning no record; with M rows  *)
(* or more they return a result record.                                    *)
C6_InsufficientRaisesElseResult ==
    op = "get_percentile" =>
        IF TooShort(arg.data)
        THEN /\ ret.raised = "ValueError"
             /\ ret.computed = {}
             /\ ret.value = None
        ELSE /\ ret.raised = "none"
             /\ ret.value # None

(* C7: in every endpoint over a single symbol's series (percentile, trend, *)
(* analysis trend, analysis correlation) a series of fewer than M rows is  *)
(* answered with HTTP 400, never with 500.                                 *)
C7_InsufficientDataIsClientError ==
    /\ (op = "api_get_percentile" /\ Len(arg.symbol) >= 3 /\ TooShort(arg.data))
          => ret.status = 400
    /\ (op = "get_trend" /\ TooShort(arg.data)) => ret.status = 400
    /\ (op = "analyze_trend" /\ arg.asset_type \in Kinds /\ TooShort(arg.data))
          => ret.status = 400
    /\ (op = "analyze_correlation" /\ arg.asset_type1 \in Kinds
           /\ arg.asset_type2 \in Kinds /\ (TooShort(arg.data1) \/ TooShort(arg.data2)))
          => ret.status = 400

(* The symbols of a batch request, as the handler parses them. *)
Requested(raw_items) ==
    SelectSeq([i \in 1..Len(raw_items) |-> strip(raw_items[i])], LAMBDA s : s # "")

(* C8: a batch request over a valid symbol list answers 200 whatever the   *)
(* symbols do: the symbols with enough data appear in results in input     *)
(* order, the others in errors in input order, each keyed by its symbol,   *)
(* and success_count + error_count = total (three symbols, the second      *)
(* insufficient: two results and one error).                               *)
C8_BatchPartialSuccess ==
    (/\ op = "get_batch_percentiles"
     /\ Requested(arg.raw_items) # <<>>
     /\ Len(Requested(arg.raw_items)) <= (IF arg.kind = "stock" THEN 20 ELSE 10)) =>
        LET symbols == Requested(arg.raw_items)
            good == SelectSeq(symbols, LAMBDA s : ~TooShort(arg.source[s]))
            bad == SelectSeq(symbols, LAMBDA s : TooShort(arg.source[s]))
        IN /\ ret.status = 200
           /\ [i \in 1..Len(ret.data.results) |-> ret.data.results[i].symbol] = good
           /\ [i \in 1..Len(ret.data.errors) |-> ret.data.errors[i].symbol] = bad
           /\ ret.data.total = Len(symbols)
           /\ ret.data.success_count + ret.data.error_count = ret.data.total

(* C9: compare_assets with 2 to 10 symbols answers 200 with the errors     *)
(* list, however many symbols fail, all of them included.                  *)
C9_CompareSurvivesFailures ==
    (/\ op = "compare_assets"
     /\ Len(arg.symbols) >= 2
     /\ Len(arg.symbols) <= 10) =>
        /\ ret.status = 200
        /\ Len(ret.data.results) + Len(ret.data.errors) = Len(arg.symbols)

(* C10: when the full historical sequence has more than 30 entries, the    *)
(* history handed to analyze_trend and analyze_correlation has more than   *)
(* 30 entries, and they answer with an analysis over it: they are not      *)
(* limited to the 30-entry presentation slice of the percentile result.    *)
C10_AnalyticsSeeFullHistory ==
    /\ (op = "historical_percentiles.tail" /\ FullHistory(arg) > 30)
          => Len(ret.values) > 30
    /\ (op = "analyze_trend" /\ arg.asset_type \in Kinds /\ FullHistory(arg.data) > 30)
          => /\ ret.status = 200
             /\ Len(ret.data.historical_percentiles) > 30
    /\ (op = "analyze_correlation" /\ arg.asset_type1 \in Kinds
           /\ arg.asset_type2 \in Kinds
           /\ FullHistory(arg.data1) > 30 /\ FullHistory(arg.data2) > 30)
          => ret.status = 200

(* ------------------------- trend and correlation ----------------------- *)

(* A percentile with denominator 1, 2, 3 or 6, as a whole number of sixths. *)
Sixths(p) == (p[1] * 6) \div p[2]

(* The sum over i = a..b of |p[i] - p[i-1]|, in sixths. *)
RECURSIVE AbsSteps(_, _, _)
AbsSteps(p, a, b) ==
    IF a > b THEN 0
    ELSE Abs(Sixths(p[a]) - Sixths(p[a - 1])) + AbsSteps(p, a + 1, b)

(* C11: for every list p of 7 or more percentiles handed to analyze_trend, *)
(* the direction is up, down or flat as the last entry is above, below or  *)
(* equal to the first, the strength is |last - first| and the volatility   *)
(* is the mean of |p[i] - p[i-1]|; [40,45,50,55,60,62,70] gives up, 30 and *)
(* 5.0.                                                                    *)
C11_TrendIndicators ==
    op = "trend_metrics" =>
        LET p == arg
            n == Len(p)
            first == Sixths(p[1])
            last == Sixths(p[n])
        IN /\ ret.trend_direction = (IF last > first THEN "up"
                                     ELSE IF last < first THEN "down" ELSE "flat")
           /\ ret.trend_strength[1] * 6 = Abs(last - first) * ret.trend_strength[2]
           /\ ret.volatility[1] * 6 * (n - 1) = AbsSteps(p, 2, n) * ret.volatility[2]
           /\ p = ExampleSlice =>
                  /\ ret.trend_direction = "up"
                  /\ RatEq(ret.trend_strength, Rat(30, 1))
                  /\ RatEq(ret.volatility, Rat(5, 1))

C11_Witness ==
    /\ op = "trend_metrics"
    /\ arg = ExampleSlice
    /\ ret.trend_direction = "up"
    /\ RatEq(ret.volatility, Rat(5, 1))

(* C12: in get_stock_trend and get_bond_trend the direction over the last  *)
(* 7 historical entries is up if the last is above the first, down if it   *)
(* is below, and flat if they are equal.                                   *)
C12_RecentTrendDirection ==
    op = "recent_trend" =>
        LET n == Len(arg)
            first == Sixths(arg[n - 6].percentile)
            last == Sixths(arg[n].percentile)
        IN ret.trend = (IF last > first THEN "up"
                        ELSE IF last < first THEN "down" ELSE "flat")

NonConstant(x) == \E i, j \in 1..Len(x) : ~RatEq(x[i], x[j])

C16_StrengthBands ==
    op = "_get_correlation_strength" =>
        LET a == Abs(arg.hundredths)
        IN /\ ret = "strong" <=> a >= 80
           /\ ret = "moderate" <=> (50 <= a /\ a < 80)
           /\ ret = "weak" <=> (30 <= a /\ a < 50)
           /\ ret = "negligible" <=> a < 30

C16_Witness ==
    /\ op = "_get_correlation_strength"
    /\ arg.hundredths = -80
    /\ ret = "strong"

(* The magnitude class and the sign an interpretation text speaks of. *)
BandOf(interpretation) ==
    CASE interpretation = "strong positive" -> [class |-> "strong", sign |-> 1]
      [] interpretation = "moderate positive" -> [class |-> "moderate", sign |-> 1]
      [] interpretation = "weak positive" -> [class |-> "weak", sign |-> 1]
      [] interpretation = "negligible" -> [class |-> "negligible", sign |-> 0]
      [] interpretation = "weak negative" -> [class |-> "weak", sign |-> -1]
      [] interpretation = "moderate negative" -> [class |-> "moderate", sign |-> -1]
      [] interpretation = "strong negative" -> [class |-> "strong", sign |-> -1]

(* C17: for every r, boundary values +-0.8, +-0.5, +-0.3 included, the     *)
(* magnitude class of _interpret_correlation(r) is the class               *)
(* _get_correlation_strength(r) gives, and its sign is the sign of r.      *)
C17_InterpretationMatchesStrength ==
    op = "_interpret_correlation" =>
        LET band == BandOf(ret)
        IN /\ band.class = _get_correlation_strength(arg.correlation)
           /\ band.class # "negligible" => band.sign = arg.correlation.sign

(* C18: for a series of one element _calculate_statistics returns std 0,   *)
(* and mean, median, min, max, q25 and q75 all equal to that element.      *)
C18_SingleElementStatistics ==
    (op = "_calculate_statistics" /\ Len(arg.values) = 1) =>
        LET e == 100 * arg.values[1]
        IN /\ ret.std = Number(0)
           /\ ret.mean = e /\ ret.median = e
           /\ ret.min = e /\ ret.max = e
           /\ ret.q25 = e /\ ret.q75 = e

(* C19: on every path of the service a series shorter than                 *)
(* min_data_points is rejected before any percentile is computed;          *)
(* get_market_overview puts an index into market_data only if its series   *)
(* has at least min_data_points points.                                    *)
C19_ShortSeriesNeverRanked ==
    /\ op = "get_percentile" => (TooShort(arg.data) => ret.computed = {})
    /\ op = "get_market_overview" =>
          \A index \in DOMAIN ret.market_data :
              Len(arg[index].values) >= min_data_points

(* C20: analyze_correlation aligns two histories by taking the last        *)
(* min(len1, len2) entries of each in their order: the two lists handed to *)
(* _calculate_correlation have equal length and pair the last entries.     *)
C20_AlignTrailing ==
    op = "aligned_percentiles" =>
        LET h1 == arg[1]
            h2 == arg[2]
            m == Min(Len(h1), Len(h2))
        IN /\ Len(ret[1]) = m
           /\ Len(ret[2]) = m
           /\ \A j \in 1..m :
                 /\ ret[1][j] = h1[Len(h1) - m + j].percentile
                 /\ ret[2][j] = h2[Len(h2) - m + j].percentile

C20_Witness ==
    /\ op = "aligned_percentiles"
    /\ Len(arg[1]) = 12
    /\ Len(arg[2]) = 10
    /\ Len(ret[1]) = 10
    /\ ret[1][10] = arg[1][12].percentile

Constant(x) == \A i, j \in 1..Len(x) : RatEq(x[i], x[j])

(* C21: _calculate_correlation returns exactly 0.0 whenever either of two  *)
(* lists of equal length is constant, and raises no division by zero for   *)
(* any two lists of equal length.                                          *)
C21_ConstantGivesZero ==
    (/\ op = "_calculate_correlation"
     /\ Len(arg[1]) = Len(arg[2])
     /\ Constant(arg[1]) \/ Constant(arg[2]))
        => ret = Coefficient(0, Rat(0, 1))

(* C22: for all lists x and y, of any lengths and values, the value        *)
(* _calculate_correlation returns lies in [-1.0, 1.0].                     *)
C22_CorrelationWithinUnit ==
    op = "_calculate_correlation" =>
        /\ ret.sign \in {-1, 0, 1}
        /\ RatLeq(Rat(0, 1), ret.sq)
        /\ RatLeq(ret.sq, Rat(1, 1))
        /\ ret.sign = 0 <=> ret.sq[1] = 0

C22_Witness ==
    /\ op = "_calculate_correlation"
    /\ arg[1] = <<Rat(0, 1), Rat(1, 1), Rat(3, 1)>>
    /\ arg[2] = Shifted(arg[1])
    /\ RatLess(Rat(1, 1), correlation_ratio_unclamped(
           deviation_sums(deviations(arg[1]), deviations(arg[2]))).sq)
    /\ ret = Coefficient(1, Rat(1, 1))

(* ----------------------- configuration and inputs ---------------------- *)

DefaultConfiguration ==
    window = PERCENTILE_WINDOW /\ min_data_points = MIN_DATA_POINTS

(* The frame the bond data source simulates. *)
BondFrame(data) == data # None /\ Len(data.values) = BOND_PERIODS

(* C23: with the defaults W = 252 and M = 60 the bond source yields 252     *)
(* points and the bond history is empty, so get_bond_trend, analyze_trend  *)
(* for a bond and analyze_correlation with a bond on either side always    *)
(* end in the insufficient-data 400; in general a trend succeeds only for  *)
(* a series of W + 7 or more points and a correlation only when both       *)
(* series have W + 10 or more.                                             *)
C23_BondAnalysesAlwaysInsufficient ==
    /\ DefaultConfiguration =>
          /\ (op = "get_trend" /\ arg.kind = "bond" /\ BondFrame(arg.data))
                => ret.status = 400
          /\ (op = "analyze_trend" /\ arg.asset_type = "bond" /\ BondFrame(arg.data))
                => ret.status = 400
          /\ (/\ op = "analyze_correlation"
              /\ arg.asset_type1 \in Kinds
              /\ arg.asset_type2 \in Kinds
              /\ \/ arg.asset_type1 = "bond" /\ BondFrame(arg.data1)
                 \/ arg.asset_type2 = "bond" /\ BondFrame(arg.data2))
                => ret.status = 400
    /\ (op \in {"get_trend", "analyze_trend"} /\ ret.status = 200)
          => Len(arg.data.values) >= window + 7
    /\ (op = "analyze_correlation" /\ ret.status = 200)
          => /\ Len(arg.data1.values) >= window + 10
             /\ Len(arg.data2.values) >= window + 10

(* C24: in compare_assets, analyze_trend and analyze_correlation a request *)
(* whose asset type is neither 'stock' nor 'bond' is answered with HTTP    *)
(* 400 'unsupported asset type', never with 500 and never with success.    *)
C24_UnsupportedTypeIs400 ==
    LET unsupported ==
            \/ /\ op = "compare_assets"
               /\ Len(arg.symbols) \in 2..10
               /\ arg.asset_type \notin {"stock", "bond"}
            \/ /\ op = "analyze_trend"
               /\ arg.asset_type \notin {"stock", "bond"}
            \/ /\ op = "analyze_correlation"
               /\ \/ arg.asset_type1 \notin {"stock", "bond"}
                  \/ arg.asset_type2 \notin {"stock", "bond"}
    IN unsupported =>
           /\ ret.status = 400
           /\ ret.detail \in {"unsupported asset type", "unsupported asset type 1",
                               "unsupported asset type 2"}

====
